---------------------------- MODULE Spec2Model ----------------------------
(***************************************************************************)
(* Model of src/rust/src/main.rs: a family of guess-and-correct integer     *)
(* log10 functions on u32 / u64, the division based reference, and the      *)
(* validation and benchmark harness around them.                            *)
(*                                                                          *)
(* TLC integers are 32-bit signed, so a machine word is a little-endian     *)
(* tuple of 16-bit limbs: a u32 is 2 limbs, a u64 is 4 limbs and a u128 is   *)
(* 8 limbs.  All arithmetic on words below is limb arithmetic with carries. *)
(***************************************************************************)
EXTENDS Integers, Sequences, FiniteSets, TLC

(***************************************************************************)
(* Machine words                                                            *)
(***************************************************************************)
Base == 2^16
HalfBase == 2^8

U32Limbs == 32 \div 16
U64Limbs == 64 \div 16
U128Limbs == 128 \div 16

\* the word of `len` limbs holding the small number n (0 <= n < 2^31)
FromInt(n, len) ==
    [i \in 1..len |-> IF i = 1 THEN n % Base ELSE IF i = 2 THEN n \div Base ELSE 0]

u32(n) == FromInt(n, U32Limbs)
u64(n) == FromInt(n, U64Limbs)

IsZero(x) == \A i \in 1..Len(x) : x[i] = 0

\* the precondition of every algorithm: x >= 1
Valid(w) == ~IsZero(w)

\* `x as u64` / `x as u32`: zero extension or truncation to `len` limbs
Cast(x, len) == [i \in 1..len |-> IF i <= Len(x) THEN x[i] ELSE 0]

RECURSIVE CmpFrom(_, _, _)
CmpFrom(x, y, i) ==
    IF i = 0 THEN 0
    ELSE IF x[i] < y[i] THEN -1
    ELSE IF x[i] > y[i] THEN 1
    ELSE CmpFrom(x, y, i - 1)

\* comparisons of two words of the same width
Gt(x, y) == CmpFrom(x, y, Len(x)) = 1
Ge(x, y) == CmpFrom(x, y, Len(x)) >= 0
Le(x, y) == CmpFrom(x, y, Len(x)) <= 0

RECURSIVE MulAddFrom(_, _, _, _)
MulAddFrom(x, m, c, i) ==
    IF i > Len(x) THEN <<>>
    ELSE LET t == x[i] * m + c
         IN  <<t % Base>> \o MulAddFrom(x, m, t \div Base, i + 1)

\* x * m + a, wrapping at the width of x (m, a small)
MulAdd(x, m, a) == MulAddFrom(x, m, a, 1)

RECURSIVE AddFrom(_, _, _, _)
AddFrom(x, y, c, i) ==
    IF i > Len(x) THEN <<>>
    ELSE LET t == x[i] + y[i] + c
         IN  <<t % Base>> \o AddFrom(x, y, t \div Base, i + 1)

\* wrapping x + y
Add(x, y) == AddFrom(x, y, 0, 1)

RECURSIVE SubFrom(_, _, _, _)
SubFrom(x, y, b, i) ==
    IF i > Len(x) THEN <<>>
    ELSE LET t == x[i] - y[i] - b
         IN  <<t % Base>> \o SubFrom(x, y, IF t < 0 THEN 1 ELSE 0, i + 1)

\* wrapping x - y
Sub(x, y) == SubFrom(x, y, 0, 1)

\* 1 << k in a word of `len` limbs
Shl1(k, len) ==
    [i \in 1..len |-> IF i = (k \div 16) + 1 THEN 2^(k % 16) ELSE 0]

\* x >> 1
Shr1(x) ==
    [i \in 1..Len(x) |->
        (x[i] \div 2) + (IF i < Len(x) THEN (x[i + 1] % 2) * (Base \div 2) ELSE 0)]

RECURSIVE BitAnd(_, _)
BitAnd(a, b) ==
    IF a = 0 \/ b = 0 THEN 0
    ELSE ((a % 2) * (b % 2)) + 2 * BitAnd(a \div 2, b \div 2)

RECURSIVE BitOr(_, _)
BitOr(a, b) ==
    IF a = 0 THEN b
    ELSE IF b = 0 THEN a
    ELSE (IF a % 2 = 1 \/ b % 2 = 1 THEN 1 ELSE 0) + 2 * BitOr(a \div 2, b \div 2)

RECURSIVE BitXor(_, _)
BitXor(a, b) ==
    IF a = 0 THEN b
    ELSE IF b = 0 THEN a
    ELSE ((a + b) % 2) + 2 * BitXor(a \div 2, b \div 2)

\* x | m for a small mask m (m < 2^16)
OrSmall(x, m) == [x EXCEPT ![1] = BitOr(x[1], m)]

RECURSIVE DivFrom(_, _, _, _)
DivFrom(x, d, i, rem) ==
    IF i = 0 THEN <<>>
    ELSE LET r1 == rem * HalfBase + (x[i] \div HalfBase)
             r2 == (r1 % d) * HalfBase + (x[i] % HalfBase)
         IN  DivFrom(x, d, i - 1, r2 % d) \o <<(r1 \div d) * HalfBase + (r2 \div d)>>

\* x / d for a small divisor d (d < 2^22)
DivSmall(x, d) == DivFrom(x, d, Len(x), 0)

\* the number held by a word known to be below 2^31
ToInt(x) == x[1] + Base * x[2]

RECURSIVE ilog2int(_)
ilog2int(n) == IF n <= 1 THEN 0 ELSE 1 + ilog2int(n \div 2)

TopLimb(x) == CHOOSE i \in 1..Len(x) : x[i] # 0 /\ \A j \in (i + 1)..Len(x) : x[j] = 0

\* x.ilog2() for x # 0: the position of the highest set bit
ilog2(x) == 16 * (TopLimb(x) - 1) + ilog2int(x[TopLimb(x)])

\* x.leading_zeros() on a word of Len(x) * 16 bits
leading_zeros(x) == IF IsZero(x) THEN 16 * Len(x) ELSE 16 * Len(x) - 1 - ilog2(x)

RECURSIVE DecFrom(_, _, _, _)
DecFrom(groups, i, acc, len) ==
    IF i > Len(groups) THEN acc
    ELSE DecFrom(groups, i + 1, MulAdd(acc, 1000, groups[i]), len)

\* the word written as a decimal literal in groups of three digits
Dec(groups, len) == DecFrom(groups, 1, FromInt(0, len), len)

u32_MAX == [i \in 1..U32Limbs |-> Base - 1]
u64_MAX == [i \in 1..U64Limbs |-> Base - 1]

Pow10[k \in 0..19] == IF k = 0 THEN u64(1) ELSE MulAdd(Pow10[k - 1], 10, 0)

RECURSIVE FloorLog10(_)
\* x.ilog10() of the standard library for x # 0: floor(log10(x)), the number
\* of times x can be divided by ten before it drops below ten
FloorLog10(x) ==
    IF Ge(x, FromInt(10, Len(x))) THEN 1 + FloorLog10(DivSmall(x, 10)) ELSE 0


(***************************************************************************)
(* Outcomes of a call: it returns a value, it panics, or it reaches         *)
(* undefined behaviour (unreachable_unchecked, get_unchecked out of range). *)
(***************************************************************************)
Returned(g, r) == [outcome |-> "returned", guess |-> g, ret |-> r]
Panicked == [outcome |-> "panicked", guess |-> -1, ret |-> -1]
Undefined(g) == [outcome |-> "ub", guess |-> g, ret |-> -1]

\* (cond) as u32
AsU32(cond) == IF cond THEN 1 ELSE 0

(***************************************************************************)
(* Reference version copied from the standard library                       *)
(***************************************************************************)
less_than_5(val) ==
    LET C1 == 3 * 2^17 - 10
        C2 == 4 * 2^17 - 100
        C3 == 7 * 2^17 - 1000
        C4 == 4 * 2^17 - 10000
    IN  BitXor(BitAnd(val + C1, val + C2), BitAnd(val + C3, val + C4)) \div 2^17

ilog10_u32(val) ==
    IF Ge(val, u32(100000))
    THEN 5 + less_than_5(ToInt(DivSmall(val, 100000)))
    ELSE less_than_5(ToInt(val))

(***************************************************************************)
(* Threshold tables (Rust index i is TLA+ index i + 1)                      *)
(***************************************************************************)
\* faulty variant: one nine dropped from the fifth entry
TEN_THRESHOLDS_typo ==
    << u32(9), u32(99), u32(999), u32(9999), u32(9999), u32(999999),
       u32(9999999), u32(99999999), u32(999999999), u32_MAX >>

TEN_THRESHOLDS ==
    << u32(9), u32(99), u32(999), u32(9999), u32(99999), u32(999999),
       u32(9999999), u32(99999999), u32(999999999), u32_MAX >>

U64_THRESHOLDS ==
    << u64(9), u64(99), u64(999), u64(9999), u64(99999), u64(999999),
       u64(9999999), u64(99999999), u64(999999999),
       Dec(<<9, 999, 999, 999>>, U64Limbs),
       Dec(<<99, 999, 999, 999>>, U64Limbs),
       Dec(<<999, 999, 999, 999>>, U64Limbs),
       Dec(<<9, 999, 999, 999, 999>>, U64Limbs),
       Dec(<<99, 999, 999, 999, 999>>, U64Limbs),
       Dec(<<999, 999, 999, 999, 999>>, U64Limbs),
       Dec(<<9, 999, 999, 999, 999, 999>>, U64Limbs),
       Dec(<<99, 999, 999, 999, 999, 999>>, U64Limbs),
       Dec(<<999, 999, 999, 999, 999, 999>>, U64Limbs),
       Dec(<<9, 999, 999, 999, 999, 999, 999>>, U64Limbs) >>

(***************************************************************************)
(* Guess functions.  Each is applied to a nonzero word.                     *)
(***************************************************************************)
\* faulty variant: the lowest set bit of the mask dropped
LZ_GUESSMASK_typo ==
    << 0,1,0,0,1,0,0,1, 0,0,0,1,0,0,1,0, 0,1,0,0,0,1,0,0, 1,0,0,0,0,0,0,0 >>

\* 0b01001001000100100100010010010000, most significant bit first
LZ_GUESSMASK ==
    << 0,1,0,0,1,0,0,1, 0,0,0,1,0,0,1,0, 0,1,0,0,0,1,0,0, 1,0,0,1,0,0,0,0 >>

\* bits << n on a 32-bit pattern (n < 32)
ShlBits(bits, n) ==
    [j \in 1..Len(bits) |-> IF j + n <= Len(bits) THEN bits[j + n] ELSE 0]

RECURSIVE SumBits(_, _)
SumBits(bits, j) == IF j = 0 THEN 0 ELSE bits[j] + SumBits(bits, j - 1)

count_ones(bits) == SumBits(bits, Len(bits))

\* dave's popcount guess, from the leading zero count
ilogpopc(val_lz) == count_ones(ShlBits(LZ_GUESSMASK, val_lz))

\* faulty variant: multiplier 10 instead of 9
guess_mul_times10(x) == (ilog2(x) * 10) \div 2^5

\* warren guess x.ilog2().wrapping_mul(9) >> 5 (the product is below 2^32)
guess_mul(x) == (ilog2(x) * 9) \div 2^5

\* faulty variant: the >> 1 before ilog2 left out
guess_mul_or_noshift(x) == (ilog2(OrSmall(x, 7)) * 5) \div 2^4

\* quaternic's guess ((x | 7) >> 1).ilog2().wrapping_mul(5) >> 4
guess_mul_or(x) == (ilog2(Shr1(OrSmall(x, 7))) * 5) \div 2^4

\* faulty variant: the entries for log2 = 6 and log2 = 7 exchanged
guess_table_swapped ==
    << 0, 0, 0, 0, 1, 1, 2, 1, 2, 2, 3, 3, 3, 3, 4, 4, 4, 5, 5, 5, 6, 6, 6, 6,
       7, 7, 7, 8, 8, 8, 9, 9, 9 >>

guess_table ==
    << 0, 0, 0, 0, 1, 1, 1, 2, 2, 2, 3, 3, 3, 3, 4, 4, 4, 5, 5, 5, 6, 6, 6, 6,
       7, 7, 7, 8, 8, 8, 9, 9, 9 >>

\* guess_table[log2 as usize]
guess_lookup(x) == guess_table[ilog2(x) + 1]

\* faulty variant: the 32-bit ratio 9/32 used for u64
guess_u64_warren9(x) == (ilog2(x) * 9) \div 2^5

\* faulty variant: multiplier 20 instead of 19
guess_u64_times20(x) == (ilog2(x) * 20) \div 2^6

\* 64-bit guess x.ilog2().wrapping_mul(19) >> 6
guess_u64_mul(x) == (ilog2(x) * 19) \div 2^6

(***************************************************************************)
(* Algorithms: guess, then one correction against the threshold table.     *)
(***************************************************************************)
\* table[guess as usize], bounds checked
Correct(x, guess, table) ==
    IF guess >= Len(table) THEN Panicked
    ELSE Returned(guess, guess + AsU32(Gt(x, table[guess + 1])))

\* *table.get_unchecked(guess as usize)
CorrectUnchecked(x, guess, table) ==
    IF guess >= Len(table) THEN Undefined(guess)
    ELSE Returned(guess, guess + AsU32(Gt(x, table[guess + 1])))

ilog10(val) ==
    IF IsZero(val) THEN Undefined(-1)
    ELSE LET guess == ilogpopc(leading_zeros(val))
         IN  IF guess > count_ones(LZ_GUESSMASK) THEN Undefined(guess)
             ELSE Correct(val, guess, TEN_THRESHOLDS)

ilog10_mul_or(x) ==
    LET guess == guess_mul_or(x)
    IN  IF guess >= 10 THEN Undefined(guess)
        ELSE Correct(x, guess, TEN_THRESHOLDS)

\* faulty variant: ilog2 of zero taken to be 0 instead of panicking
ilog10_mul_nopanic(x) ==
    IF IsZero(x) THEN Returned(0, 0)
    ELSE LET guess == guess_mul(x)
         IN  Correct(x, guess, TEN_THRESHOLDS)

ilog10_mul(x) ==
    IF IsZero(x) THEN Panicked
    ELSE LET guess == guess_mul(x)
         IN  IF guess >= 10 THEN Undefined(guess)
             ELSE Correct(x, guess, TEN_THRESHOLDS)

log10_table_table(x) ==
    IF IsZero(x) THEN Panicked
    ELSE Correct(x, guess_lookup(x), TEN_THRESHOLDS)

ilog10_mul_alt(x) ==
    IF IsZero(x) THEN Panicked
    ELSE CorrectUnchecked(x, guess_mul(x), TEN_THRESHOLDS)

ilog10_u64_mul(x) ==
    IF IsZero(x) THEN Panicked
    ELSE CorrectUnchecked(x, guess_u64_mul(x), U64_THRESHOLDS)


(***************************************************************************)
(* Inputs: every word within Delta of a power of two, of a power of ten or  *)
(* of the largest word, and every word up to SmallMax (0 included: it is    *)
(* the input the precondition excludes).                                    *)
(***************************************************************************)
Delta == 2
SmallMax == 130

Near(w) ==
    {Add(w, FromInt(d, Len(w))) : d \in {e \in 0..Delta : Ge(Add(w, FromInt(e, Len(w))), w)}}
    \cup {Sub(w, FromInt(d, Len(w))) : d \in {e \in 0..Delta : Le(Sub(w, FromInt(e, Len(w))), w)}}

Inputs64 ==
    UNION {Near(Shl1(k, U64Limbs)) : k \in 0..63}
    \cup UNION {Near(Pow10[j]) : j \in 0..19}
    \cup Near(u64_MAX)
    \cup {u64(n) : n \in 0..SmallMax}

Inputs32 ==
    {Cast(w, U32Limbs) : w \in {v \in Inputs64 : \A i \in (U32Limbs + 1)..U64Limbs : v[i] = 0}}

(***************************************************************************)
(* State                                                                    *)
(***************************************************************************)
VARIABLES
    x,        \* the argument of the call (a u32 or u64 word)
    fn,       \* the function that was called, "none" before the call
    outcome,  \* "returned" or "panicked"
    guess,    \* the guess the function computed, -1 if it computed none
    ret,      \* the value returned, -1 if none
    ub,       \* TRUE iff the call reached undefined behaviour
    x2,       \* a second argument, x <= x2, for the guess of two inputs
    guess2,   \* the guess computed for x2, -1 if none
    \* the program run by main()
    args,     \* the command line: [test, testu64]
    pc,       \* where the main thread is
    todo,     \* items of the running parallel iterator no worker has taken
    cur,      \* the item each pool worker is evaluating, Idle if none
    done32,   \* inputs of the u32 range whose assert_eq has passed
    doneRand, \* random tasks that ran to their end
    iter,     \* each worker's position in the loop of its random task
    widx,     \* position of test_warren_64bit in test_values
    bench,    \* position of the benchmark: function f, input i
    panicked, \* TRUE once some thread has panicked
    diag,     \* the panic messages written
    out,      \* the lines printed to standard output
    calls     \* the calls of algorithms and references made by the last step

algVars == <<x, fn, outcome, guess, ret, ub, x2, guess2>>
harnessVars ==
    <<args, pc, todo, cur, done32, doneRand, iter, widx, bench, panicked, diag, out, calls>>

\* what a build may hand back once a call has reached undefined behaviour
UBValues == 0..9

\* pool size, the scaled-down range 1..=u32::MAX, random tasks and draws
NWorkers == 2
RangeLow == 3
RandTasks == 2
RandIters == 2

Workers == 1..NWorkers
Idle == <<>>

\* the program has not been started: the state of the harness while single
\* functions are applied
HarnessIdle ==
    /\ args = [test |-> FALSE, testu64 |-> FALSE]
    /\ pc = "off"
    /\ todo = {}
    /\ cur = [w \in Workers |-> Idle]
    /\ done32 = {}
    /\ doneRand = {}
    /\ iter = [w \in Workers |-> 0]
    /\ widx = 0
    /\ bench = [f |-> 0, i |-> 0]
    /\ panicked = FALSE
    /\ diag = {}
    /\ out = <<>>
    /\ calls = {}

\* the call `name`(x) with the modelled result r
Apply(name, r) ==
    /\ fn = "none"
    /\ fn' = name
    /\ guess' = r.guess
    /\ ub' = (r.outcome = "ub")
    /\ IF r.outcome = "ub"
       THEN \/ outcome' = "panicked" /\ ret' = -1
            \/ outcome' = "returned" /\ ret' \in UBValues
       ELSE outcome' = r.outcome /\ ret' = r.ret
    /\ UNCHANGED <<x, x2, guess2>>
    /\ UNCHANGED harnessVars

IsU32(w) == Len(w) = U32Limbs
IsU64(w) == Len(w) = U64Limbs

Call_ilog10_u32 == IsU32(x) /\ Apply("ilog10_u32", Returned(-1, ilog10_u32(x)))
Call_ilog10 == IsU32(x) /\ Apply("ilog10", ilog10(x))
Call_ilog10_mul_or == IsU32(x) /\ Apply("ilog10_mul_or", ilog10_mul_or(x))
Call_ilog10_mul == IsU32(x) /\ Apply("ilog10_mul", ilog10_mul(x))
Call_log10_table_table == IsU32(x) /\ Apply("log10_table_table", log10_table_table(x))
Call_ilog10_mul_alt == IsU32(x) /\ Apply("ilog10_mul_alt", ilog10_mul_alt(x))
Call_ilog10_u64_mul == IsU64(x) /\ Apply("ilog10_u64_mul", ilog10_u64_mul(x))

AlgInit ==
    /\ x \in Inputs32 \cup Inputs64
    /\ fn = "none"
    /\ outcome = "none"
    /\ guess = -1
    /\ ret = -1
    /\ ub = FALSE
    /\ x2 = x
    /\ guess2 = -1
    /\ HarnessIdle

AlgNext ==
    \/ Call_ilog10_u32
    \/ Call_ilog10
    \/ Call_ilog10_mul_or
    \/ Call_ilog10_mul
    \/ Call_log10_table_table
    \/ Call_ilog10_mul_alt
    \/ Call_ilog10_u64_mul

vars == <<algVars, harnessVars>>

Init == AlgInit
Next == AlgNext
Spec == Init /\ [][Next]_vars

(***************************************************************************)
(* The guess functions on two valid inputs x <= x2                          *)
(***************************************************************************)
MonoSmall == 12

\* the ends of every interval on which ilog2 is constant, and the small words
MonoInputs64 ==
    {Shl1(k, U64Limbs) : k \in 0..63}
    \cup {Sub(Shl1(k, U64Limbs), u64(1)) : k \in 1..63}
    \cup {u64_MAX}
    \cup {u64(n) : n \in 1..MonoSmall}

MonoInputs32 ==
    {Cast(w, U32Limbs) : w \in {v \in MonoInputs64 : \A i \in (U32Limbs + 1)..U64Limbs : v[i] = 0}}

\* the guess function `name` applied to x and to x2
Guess(name, g1, g2) ==
    /\ fn = "none"
    /\ fn' = name
    /\ guess' = g1
    /\ guess2' = g2
    /\ UNCHANGED <<x, x2, outcome, ret, ub>>
    /\ UNCHANGED harnessVars

Guess_ilogpopc ==
    IsU32(x) /\ Guess("ilogpopc", ilogpopc(leading_zeros(x)), ilogpopc(leading_zeros(x2)))
Guess_mul == IsU32(x) /\ Guess("guess_mul", guess_mul(x), guess_mul(x2))
Guess_mul_or == IsU32(x) /\ Guess("guess_mul_or", guess_mul_or(x), guess_mul_or(x2))
Guess_lookup == IsU32(x) /\ Guess("guess_table", guess_lookup(x), guess_lookup(x2))
Guess_u64_mul == IsU64(x) /\ Guess("guess_u64_mul", guess_u64_mul(x), guess_u64_mul(x2))

MonoInit ==
    /\ \/ x \in MonoInputs32 /\ x2 \in MonoInputs32
       \/ x \in MonoInputs64 /\ x2 \in MonoInputs64
    /\ Le(x, x2)
    /\ fn = "none"
    /\ outcome = "none"
    /\ guess = -1
    /\ guess2 = -1
    /\ ret = -1
    /\ ub = FALSE
    /\ HarnessIdle

MonoNext ==
    \/ Guess_ilogpopc
    \/ Guess_mul
    \/ Guess_mul_or
    \/ Guess_lookup
    \/ Guess_u64_mul

MonoSpec == MonoInit /\ [][MonoNext]_vars

\* C7: every guess function is monotone: for valid x <= x2 in its domain,
\* guess(x) <= guess(x2).
C7_GuessMonotone ==
    (fn \in {"ilogpopc", "guess_mul", "guess_mul_or", "guess_table", "guess_u64_mul"}
        /\ Valid(x) /\ Le(x, x2)) => guess <= guess2

C7_Witness == fn = "guess_table" /\ Gt(x2, x) /\ guess < guess2


(***************************************************************************)
(* The program: main() runs test_ilog64, test_ilog or benchmark_ilog.       *)
(* into_par_iter().for_each(f) hands the items of the range to the workers  *)
(* of the pool and returns once every item is done; a panic in f is kept    *)
(* and resumed in the caller when the workers have stopped.                 *)
(***************************************************************************)
\* what the caller of a function observes
CallResults(r) ==
    IF r.outcome = "ub"
    THEN {Panicked} \cup {Returned(r.guess, v) : v \in UBValues}
    ELSE {r}

Message(m, l, r) == [msg |-> m, left |-> l, right |-> r]

\* assert_eq!(res, xx.ilog10()) where res is the result of the call on xx
AssertEq(res, xx) ==
    IF res.outcome # "returned" \/ IsZero(xx)
    THEN Message("argument of integer logarithm must be positive", -1, -1)
    ELSE IF res.ret = FloorLog10(xx) THEN Message("ok", res.ret, res.ret)
    ELSE Message("assertion left == right failed", res.ret, FloorLog10(xx))

Call(name, arg) == [fn |-> name, x |-> arg]

\* the calls assert_eq!(name(xx), xx.ilog10()) makes: the right side is not
\* evaluated when the left side panics
AssertCalls(name, res, xx) ==
    {Call(name, xx)} \cup (IF res.outcome = "returned" THEN {Call("ilog10", xx)} ELSE {})

\* (1..=u32::MAX), scaled down to its two ends
Range32 == {u32(i) : i \in 1..RangeLow} \cup {u32_MAX}

\* the i-th value of 1..=UPTO in order
RangeAt(i) == IF i <= RangeLow THEN u32(i) ELSE u32_MAX
RangeLen == RangeLow + 1

\* (1..128), scaled down: one item per random task
RandItems == {<<t>> : t \in 1..RandTasks}

\* values rng.gen::<u64>() can produce
RandDraws == {u64(0), u64(1), Shl1(62, U64Limbs), u64_MAX}

\* test_values of test_warren_64bit, 1-based
NumTestValues == 62 + 62 + 1
test_value(n) ==
    IF n <= 62 THEN Shl1(n - 1, U64Limbs)
    ELSE IF n <= 62 + 62
         THEN Cast(Sub(Shl1(n - 61, U128Limbs), FromInt(1, U128Limbs)), U64Limbs)
         ELSE u64_MAX

ParPhase == pc \in {"t32_par", "s32_par", "rand_par"}

Main ==
    /\ pc = "main"
    /\ IF args.testu64
       THEN /\ pc' = "warren"
            /\ out' = Append(out, "Testing warren mapping function")
            /\ widx' = 1
            /\ UNCHANGED <<todo, bench>>
       ELSE IF args.test
       THEN /\ pc' = "t32_par"
            /\ todo' = Range32
            /\ UNCHANGED <<out, widx, bench>>
       ELSE /\ pc' = "bench"
            /\ bench' = [f |-> 1, i |-> 1]
            /\ UNCHANGED <<out, widx, todo>>
    /\ calls' = {}
    /\ UNCHANGED <<args, cur, done32, doneRand, iter, panicked, diag>>
    /\ UNCHANGED algVars

\* one loop iteration of test_warren_64bit; after the last one test_ilog64
\* goes on to the u32 sanity check
WarrenStep ==
    /\ pc = "warren"
    /\ LET val == test_value(widx)
           log2val == ilog2(val)
           real_log10val == FloorLog10(val)
           warren_map == (log2val * 19) \div 2^6
       IN  /\ calls' = {Call("ilog2", val), Call("ilog10", val)}
           /\ IF IsZero(val)
              THEN /\ pc' = "exit_fail"
                   /\ panicked' = TRUE
                   /\ diag' = diag \cup
                        {Message("argument of integer logarithm must be positive", -1, -1)}
                   /\ UNCHANGED <<widx, out, todo>>
              ELSE IF ~(warren_map = real_log10val \/ warren_map = real_log10val - 1)
              THEN /\ pc' = "exit_fail"
                   /\ panicked' = TRUE
                   /\ diag' = diag \cup
                        {Message("assertion failed", warren_map, real_log10val)}
                   /\ UNCHANGED <<widx, out, todo>>
              ELSE IF widx < NumTestValues
              THEN /\ widx' = widx + 1
                   /\ UNCHANGED <<pc, panicked, diag, out, todo>>
              ELSE /\ pc' = "s32_par"
                   /\ out' = Append(out, "Testing log of u32s to sanity check")
                   /\ todo' = Range32
                   /\ UNCHANGED <<widx, panicked, diag>>
    /\ UNCHANGED <<args, cur, done32, doneRand, iter, bench>>
    /\ UNCHANGED algVars

\* a pool worker takes an item of the running parallel iterator
Claim(w) ==
    /\ ParPhase
    /\ cur[w] = Idle
    /\ \E item \in todo :
        /\ cur' = [cur EXCEPT ![w] = item]
        /\ todo' = todo \ {item}
    /\ iter' = [iter EXCEPT ![w] = 0]
    /\ calls' = {}
    /\ UNCHANGED <<args, pc, done32, doneRand, widx, bench, panicked, diag, out>>
    /\ UNCHANGED algVars

\* the closure of the u32 range: assert_eq!(ilog10_mul(x), x.ilog10()) in
\* test_ilog, assert_eq!(ilog10_u64_mul(x as u64), x.ilog10()) in test_ilog64
Eval32(w) ==
    /\ pc \in {"t32_par", "s32_par"}
    /\ cur[w] # Idle
    /\ LET arg == IF pc = "t32_par" THEN cur[w] ELSE Cast(cur[w], U64Limbs)
           name == IF pc = "t32_par" THEN "ilog10_mul" ELSE "ilog10_u64_mul"
       IN  \E res \in CallResults(IF pc = "t32_par" THEN ilog10_mul(arg)
                                                 ELSE ilog10_u64_mul(arg)) :
              /\ calls' = AssertCalls(name, res, arg)
              /\ IF AssertEq(res, arg).msg = "ok"
                 THEN /\ done32' = done32 \cup {cur[w]}
                      /\ UNCHANGED <<panicked, diag>>
                 ELSE /\ panicked' = TRUE
                      /\ diag' = diag \cup {AssertEq(res, arg)}
                      /\ UNCHANGED done32
    /\ cur' = [cur EXCEPT ![w] = Idle]
    /\ UNCHANGED <<args, pc, todo, doneRand, iter, widx, bench, out>>
    /\ UNCHANGED algVars

\* one iteration of the loop of a random task
RandStep(w) ==
    /\ pc = "rand_par"
    /\ cur[w] # Idle
    /\ \E xx \in RandDraws :
        \E res \in CallResults(ilog10_u64_mul(xx)) :
            /\ calls' = AssertCalls("ilog10_u64_mul", res, xx)
            /\ IF AssertEq(res, xx).msg # "ok"
               THEN /\ panicked' = TRUE
                    /\ diag' = diag \cup {AssertEq(res, xx)}
                    /\ cur' = [cur EXCEPT ![w] = Idle]
                    /\ UNCHANGED <<iter, doneRand>>
               ELSE IF iter[w] + 1 < RandIters
               THEN /\ iter' = [iter EXCEPT ![w] = iter[w] + 1]
                    /\ UNCHANGED <<cur, doneRand, panicked, diag>>
               ELSE /\ doneRand' = doneRand \cup {cur[w]}
                    /\ cur' = [cur EXCEPT ![w] = Idle]
                    /\ iter' = [iter EXCEPT ![w] = 0]
                    /\ UNCHANGED <<panicked, diag>>
    /\ UNCHANGED <<args, pc, todo, done32, widx, bench, out>>
    /\ UNCHANGED algVars

\* faulty variant: for_each returns as soon as the last item has been handed out
JoinReady_nowait == todo = {}

\* for_each returns: every item has been taken and every worker is back
JoinReady == todo = {} /\ \A w \in Workers : cur[w] = Idle

\* the parallel iterator returns normally and the caller goes on
Join ==
    /\ ParPhase
    /\ ~panicked
    /\ JoinReady
    /\ \/ /\ pc = "t32_par"
          /\ out' = Append(out, "passed exhaustive u32 test")
          /\ pc' = "exit_ok"
       \/ /\ pc = "s32_par"
          /\ out' = out \o <<"passed exhaustive u32 test", "Testing boundary values">>
          /\ pc' = "boundary"
       \/ /\ pc = "rand_par"
          /\ out' = Append(out, "passed random u64 test")
          /\ pc' = "exit_ok"
    /\ calls' = {}
    /\ UNCHANGED <<args, todo, cur, done32, doneRand, iter, widx, bench, panicked, diag>>
    /\ UNCHANGED algVars

\* a worker has panicked: once the workers have stopped the panic is resumed
\* in the main thread, which unwinds out of main()
JoinPanic ==
    /\ ParPhase
    /\ panicked
    /\ \A w \in Workers : cur[w] = Idle
    /\ pc' = "exit_fail"
    /\ calls' = {}
    /\ UNCHANGED <<args, todo, cur, done32, doneRand, iter, widx, bench, panicked, diag, out>>
    /\ UNCHANGED algVars

\* the two boundary asserts of test_ilog64, then the start of the random test
Boundary ==
    /\ pc = "boundary"
    /\ LET b1 == Shl1(62, U64Limbs)
           b2 == u64_MAX
       IN  \E r1 \in CallResults(ilog10_u64_mul(b1)), r2 \in CallResults(ilog10_u64_mul(b2)) :
              IF AssertEq(r1, b1).msg # "ok"
              THEN /\ calls' = AssertCalls("ilog10_u64_mul", r1, b1)
                   /\ panicked' = TRUE
                   /\ diag' = diag \cup {AssertEq(r1, b1)}
                   /\ pc' = "exit_fail"
                   /\ UNCHANGED <<out, todo>>
              ELSE IF AssertEq(r2, b2).msg # "ok"
              THEN /\ calls' = AssertCalls("ilog10_u64_mul", r1, b1)
                                  \cup AssertCalls("ilog10_u64_mul", r2, b2)
                   /\ panicked' = TRUE
                   /\ diag' = diag \cup {AssertEq(r2, b2)}
                   /\ pc' = "exit_fail"
                   /\ UNCHANGED <<out, todo>>
              ELSE /\ calls' = AssertCalls("ilog10_u64_mul", r1, b1)
                                  \cup AssertCalls("ilog10_u64_mul", r2, b2)
                   /\ out' = Append(out, "Testing random u64s")
                   /\ todo' = RandItems
                   /\ pc' = "rand_par"
                   /\ UNCHANGED <<panicked, diag>>
    /\ UNCHANGED <<args, cur, done32, doneRand, iter, widx, bench>>
    /\ UNCHANGED algVars

\* the functions benchmark_ilog times, in order
BenchCall(f, xx) ==
    IF f = 1 THEN Returned(-1, ilog10_u32(xx))
    ELSE IF f = 2 THEN ilog10(xx)
    ELSE ilog10_mul(xx)

BenchName(f) == IF f = 1 THEN "ilog10_u32" ELSE IF f = 2 THEN "ilog10" ELSE "ilog10_mul"

\* one iteration of runloop: black_box(f(i)); after the last loop the table
\* is printed
BenchStep ==
    /\ pc = "bench"
    /\ \E res \in CallResults(BenchCall(bench.f, RangeAt(bench.i))) :
        /\ calls' = {Call(BenchName(bench.f), RangeAt(bench.i))}
        /\ IF res.outcome # "returned"
           THEN /\ pc' = "exit_fail"
                /\ panicked' = TRUE
                /\ diag' = diag \cup
                     {Message("argument of integer logarithm must be positive", -1, -1)}
                /\ UNCHANGED <<bench, out>>
           ELSE IF bench.i < RangeLen
           THEN /\ bench' = [bench EXCEPT !.i = bench.i + 1]
                /\ UNCHANGED <<pc, panicked, diag, out>>
           ELSE IF bench.f < 3
           THEN /\ bench' = [f |-> bench.f + 1, i |-> 1]
                /\ UNCHANGED <<pc, panicked, diag, out>>
           ELSE /\ pc' = "exit_ok"
                /\ out' = out \o <<"|Platform | popcount | mul | stdlib |",
                                   "|---------|----------|-----|--------|",
                                   "|  |  {elapsed_popc} | {elapsed_mul} | {elapsed_real} |",
                                   "">>
                /\ UNCHANGED <<bench, panicked, diag>>
    /\ UNCHANGED <<args, todo, cur, done32, doneRand, iter, widx>>
    /\ UNCHANGED algVars

HarnessInit ==
    /\ args \in [test : BOOLEAN, testu64 : BOOLEAN]
    /\ pc = "main"
    /\ todo = {}
    /\ cur = [w \in Workers |-> Idle]
    /\ done32 = {}
    /\ doneRand = {}
    /\ iter = [w \in Workers |-> 0]
    /\ widx = 0
    /\ bench = [f |-> 0, i |-> 0]
    /\ panicked = FALSE
    /\ diag = {}
    /\ out = <<>>
    /\ calls = {}
    /\ x = u32(1)
    /\ x2 = u32(1)
    /\ fn = "none"
    /\ outcome = "none"
    /\ guess = -1
    /\ guess2 = -1
    /\ ret = -1
    /\ ub = FALSE

HarnessNext ==
    \/ Main
    \/ WarrenStep
    \/ \E w \in Workers : Claim(w)
    \/ \E w \in Workers : Eval32(w)
    \/ \E w \in Workers : RandStep(w)
    \/ Join
    \/ JoinPanic
    \/ Boundary
    \/ BenchStep

HarnessSpec == HarnessInit /\ [][HarnessNext]_vars

(***************************************************************************)
(* Properties of the functions                                              *)
(***************************************************************************)
\* 10^9 as a u32
TenPow9 == Cast(Pow10[9], U32Limbs)

\* C1: for every x in [1, 2^32 - 1], ilog10_mul(x) returns floor(log10(x));
\* ilog10_mul(9) = 0, (10) = 1, (99) = 1, (100) = 2, (999_999_999) = 8 and
\* (2^32 - 1) = 9.
C1_IlogMulExact ==
    (fn = "ilog10_mul" /\ Valid(x)) =>
        /\ outcome = "returned" /\ ~ub
        /\ ret = FloorLog10(x)
        /\ (x = u32(9) => ret = 0)
        /\ (x = u32(10) => ret = 1)
        /\ (x = u32(99) => ret = 1)
        /\ (x = u32(100) => ret = 2)
        /\ (x = u32(999999999) => ret = 8)
        /\ (x = u32_MAX => ret = 9)

C1_Witness == fn = "ilog10_mul" /\ x = u32(999999999) /\ outcome = "returned" /\ ret = 8

\* C2: for every x in [1, 2^64 - 1] (the boundary set, the widened u32 range
\* and whatever the random sample draws), ilog10_u64_mul(x) returns
\* floor(log10(x)); ilog10_u64_mul(2^62) = 18 and ilog10_u64_mul(2^64 - 1) = 19.
C2_IlogU64MulExact ==
    (fn = "ilog10_u64_mul" /\ Valid(x)) =>
        /\ outcome = "returned" /\ ~ub
        /\ ret = FloorLog10(x)
        /\ (x = Shl1(62, U64Limbs) => ret = 18)
        /\ (x = u64_MAX => ret = 19)

C2_Witness == fn = "ilog10_u64_mul" /\ x = u64_MAX /\ outcome = "returned" /\ ret = 19

\* C3: for every x in [1, 2^32 - 1], ilog10, ilog10_mul_or, log10_table_table,
\* ilog10_mul_alt and the reference ilog10_u32 return floor(log10(x)), the
\* same result as ilog10_mul.
C3_Others32Exact ==
    (fn \in {"ilog10", "ilog10_mul_or", "log10_table_table", "ilog10_mul_alt", "ilog10_u32"}
        /\ Valid(x)) =>
        /\ outcome = "returned" /\ ~ub
        /\ ret = FloorLog10(x)
        /\ ret = ilog10_mul(x).ret

C3_Witness == fn = "ilog10" /\ x = TenPow9 /\ outcome = "returned" /\ ret = 9

\* C4: for every valid x, the guess of every guess function is exact or
\* exactly one too small: guess(x) <= floor(log10(x)) <= guess(x) + 1.
C4_BoundedError ==
    (fn \in {"ilog10", "ilog10_mul", "ilog10_mul_or", "log10_table_table",
             "ilog10_mul_alt", "ilog10_u64_mul"} /\ Valid(x)) =>
        /\ guess <= FloorLog10(x)
        /\ FloorLog10(x) <= guess + 1

C4_Witness == fn = "ilog10_u64_mul" /\ x = u64_MAX /\ guess = 18 /\ FloorLog10(x) = guess + 1

\* C5: for every valid x, the guess is a valid index of the threshold table
\* (below 10 for TEN_THRESHOLDS, below 19 for U64_THRESHOLDS), ilogpopc's
\* guess never exceeds the popcount of its mask, and no call reaches
\* unreachable_unchecked or an out-of-range get_unchecked.
C5_IndexSafety ==
    Valid(x) =>
        /\ (fn \in {"ilog10", "ilog10_mul", "ilog10_mul_or", "log10_table_table",
                    "ilog10_mul_alt"} =>
                guess >= 0 /\ guess <= Len(TEN_THRESHOLDS) - 1 /\ guess < 10)
        /\ (fn = "ilog10_u64_mul" =>
                guess >= 0 /\ guess <= Len(U64_THRESHOLDS) - 1 /\ guess < 19)
        /\ (fn = "ilog10" => guess <= count_ones(LZ_GUESSMASK))
        /\ (fn # "none" => ~ub /\ outcome = "returned")

C5_Witness ==
    fn = "ilog10_u64_mul" /\ Valid(x) /\ guess = Len(U64_THRESHOLDS) - 1 /\ ~ub

StrictlyIncreasing(t) == \A i \in 1..(Len(t) - 1) : Gt(t[i + 1], t[i])

\* t[i] is the largest word of its type whose floor-log10 is i
LargestOfLog(t, max) ==
    \A i \in 1..Len(t) :
        /\ FloorLog10(t[i]) = i - 1
        /\ (t[i] = max \/ FloorLog10(Add(t[i], FromInt(1, Len(t[i])))) = i)

\* the first n entries are 10^(i+1) - 1: 9, and then ten times the entry
\* before plus 9 (n is below the number of decimal digits of the type, so the
\* product does not wrap)
NinesUpTo(t, n) ==
    \A i \in 1..n :
        t[i] = IF i = 1 THEN FromInt(9, Len(t[i])) ELSE MulAdd(t[i - 1], 10, 9)

\* what holds of both tables t32 = TEN_THRESHOLDS and t64 = U64_THRESHOLDS
TablesCommon(t32, t64) ==
    /\ Len(t32) = 10
    /\ Len(t64) = 19
    /\ StrictlyIncreasing(t32)
    /\ StrictlyIncreasing(t64)
    /\ LargestOfLog(t32, u32_MAX)
    /\ LargestOfLog(t64, u64_MAX)
    /\ NinesUpTo(t32, Len(t32) - 1)
    /\ NinesUpTo(t64, Len(t64) - 1)
    /\ t32[Len(t32)] = u32_MAX

\* C6 as stated: both tables are strictly increasing, entry i is the largest
\* value whose floor-log10 is i, non-final entries are 10^(i+1) - 1, and the
\* final entry of each table is the largest value of its type.
C6_Original ==
    \A t32 \in {TEN_THRESHOLDS}, t64 \in {U64_THRESHOLDS} :
        TablesCommon(t32, t64) /\ t64[Len(t64)] = u64_MAX

\* C6 (amended): as above, except that the final entry of U64_THRESHOLDS is
\* 10^19 - 1 like the entries before it, and not 2^64 - 1.
C6_Tables ==
    \A t32 \in {TEN_THRESHOLDS}, t64 \in {U64_THRESHOLDS} :
        /\ TablesCommon(t32, t64)
        /\ NinesUpTo(t64, Len(t64))
        /\ t64[Len(t64)] # u64_MAX

\* a call corrected against the final u64 entry by a value above it
C6_Witness ==
    /\ fn = "ilog10_u64_mul"
    /\ guess = Len(U64_THRESHOLDS) - 1
    /\ Gt(x, U64_THRESHOLDS[Len(U64_THRESHOLDS)])
    /\ ret = 19

\* C8 as stated: called with x = 0, none of the algorithms returns a value.
C8_Original ==
    (IsZero(x) /\ fn \in {"ilog10", "ilog10_mul", "ilog10_mul_or", "ilog10_mul_alt",
                          "log10_table_table", "ilog10_u64_mul"})
        => outcome # "returned"

\* C8 (amended): called with x = 0, ilog10_mul, ilog10_mul_alt,
\* log10_table_table and ilog10_u64_mul panic (in ilog2) and return nothing;
\* ilog10_mul_or returns 0; ilog10 reaches undefined behaviour.
C8_ZeroInput ==
    IsZero(x) =>
        /\ (fn \in {"ilog10_mul", "ilog10_mul_alt", "log10_table_table", "ilog10_u64_mul"}
                => outcome = "panicked" /\ ret = -1 /\ ~ub)
        /\ (fn = "ilog10_mul_or" => outcome = "returned" /\ ret = 0 /\ ~ub)
        /\ (fn = "ilog10" => ub)

C8_Witness == IsZero(x) /\ fn = "ilog10_mul" /\ outcome = "panicked"

(***************************************************************************)
(* Properties of the program                                                *)
(***************************************************************************)
Printed(line) == \E i \in 1..Len(out) : out[i] = line

PassedOnlyAfterAll ==
    Printed("passed exhaustive u32 test") => done32 = Range32

FailureReported ==
    panicked => pc # "exit_ok" /\ diag # {}

\* C9: under every interleaving of the workers, "passed exhaustive u32 test"
\* is printed only after every x of the range has been evaluated and every
\* comparison held; once a worker has panicked the run can only end in
\* failure, with the panic message written, and nothing more is printed.
C9_Validation ==
    /\ [](PassedOnlyAfterAll /\ FailureReported)
    /\ [][panicked => out' = out]_vars

C9_Witness ==
    /\ args.test /\ ~args.testu64
    /\ pc = "exit_ok"
    /\ Printed("passed exhaustive u32 test")
    /\ done32 = Range32
    /\ ~panicked

\* C10 as stated: no call the harness makes to an algorithm or to the
\* reference logarithm has the argument 0.
C10_NoZeroArgument == \A c \in calls : Valid(c.x)

=============================================================================
